---------------------------- MODULE Spec2Model ----------------------------
(***************************************************************************)
(* Retrieval pipeline of "RAG-TASK DAY-5": the recursive text chunker      *)
(* (app.py), the two ingestion pipelines (app.py: IndexFlatL2 and          *)
(* "RAG app.py": IndexFlatIP + cross-encoder rerank) and their queries     *)
(* against the persisted chunk store and index.                            *)
(*                                                                         *)
(* A Python str is modelled as a sequence of one-character strings, so     *)
(* that strip, split and slicing are computed as Python computes them.     *)
(***************************************************************************)
EXTENDS Integers, Sequences, FiniteSets

(* ------------------------------ bounds -------------------------------- *)

\* longest page text enumerated for the chunker
MaxTextLen == 5
\* largest max_len (chunk_size) enumerated for the chunker
MaxChunk == 2
\* most pages of one PDF
MaxPdfPages == 2
\* ingestion runs per behaviour
MaxRuns == 2
\* config["chunk_size"] of the pipelines
ChunkSize == 2
\* largest config["top_k"]
MaxTopK == 3
\* largest config["rerank_top_n"]
MaxRerankN == 3

(* ----------------------------- str helpers ---------------------------- *)

\* the characters str.strip() removes that the model's texts can contain
Whitespace == {" ", "\n", "\t"}

\* the characters the enumerated page texts are built from
Alphabet == {"a", "b", ".", "\n"}

Texts(n) == UNION {[1..k -> Alphabet] : k \in 0..n}

MinOf(S) == CHOOSE x \in S : \A y \in S : x <= y

MaxOf(S) == CHOOSE x \in S : \A y \in S : x >= y

\* str.strip(): the text without its leading and trailing whitespace
strip(s) ==
    LET keep == {i \in 1..Len(s) : s[i] \notin Whitespace}
    IN  IF keep = {} THEN <<>> ELSE SubSeq(s, MinOf(keep), MaxOf(keep))

\* the positions where sep occurs in s
Occurrences(s, sep) ==
    {i \in 1..(Len(s) - Len(sep) + 1) : SubSeq(s, i, i + Len(sep) - 1) = sep}

\* `sep in s`
Contains(s, sep) == Occurrences(s, sep) # {}

RECURSIVE split(_, _)
\* str.split(sep) for a non-empty sep: the pieces between the leftmost,
\* non-overlapping occurrences of sep; the occurrences themselves are dropped
split(s, sep) ==
    IF Occurrences(s, sep) = {}
    THEN <<s>>
    ELSE LET i == MinOf(Occurrences(s, sep))
         IN  <<SubSeq(s, 1, i - 1)>>
                 \o split(SubSeq(s, i + Len(sep), Len(s)), sep)

RECURSIVE Flatten(_)
\* "".join(list) / list.extend over a list of lists
Flatten(ss) == IF ss = <<>> THEN <<>> ELSE Head(ss) \o Flatten(Tail(ss))

(* ------------------------------ TextChunker --------------------------- *)

RECURSIVE recursive_chunk(_, _, _)
RECURSIVE chunk_parts(_, _, _)

\* recursive_chunk with the oversized part appended whole instead of being
\* split on the finer separators
recursive_chunk_no_recursion(text, seps, maxlen) ==
    LET t == strip(text)
        parts == split(t, seps[1])
        kept == SelectSeq([i \in 1..Len(parts) |-> strip(parts[i])],
                          LAMBDA p : p # <<>>)
    IN  IF Len(t) <= maxlen \/ seps = <<>> THEN <<t>> ELSE kept

\* recursive_chunk without the `len(text) <= max_len` early return: it
\* splits on every separator whatever the length
recursive_chunk_always_split(text, seps, maxlen) ==
    LET t == strip(text)
    IN  IF seps = <<>>
        THEN <<t>>
        ELSE Flatten([i \in 1..Len(split(t, seps[1])) |->
                 IF strip(split(t, seps[1])[i]) = <<>> THEN <<>>
                 ELSE recursive_chunk(strip(split(t, seps[1])[i]),
                                      Tail(seps), maxlen)])

\* recursive_chunk(text, separators, max_len)
recursive_chunk(text, seps, maxlen) ==
    LET t == strip(text)
    IN  IF Len(t) <= maxlen \/ seps = <<>>
        THEN <<t>>
        ELSE chunk_parts(split(t, seps[1]), seps, maxlen)

\* the `for part in parts` loop of recursive_chunk
chunk_parts(parts, seps, maxlen) ==
    IF parts = <<>>
    THEN <<>>
    ELSE LET part == strip(Head(parts))
             rest == chunk_parts(Tail(parts), seps, maxlen)
         IN  IF part = <<>> THEN rest
             ELSE IF Len(part) > maxlen
                  THEN recursive_chunk(part, Tail(seps), maxlen) \o rest
                  ELSE <<part>> \o rest

RECURSIVE recursive_chunk_depth(_, _, _)
RECURSIVE parts_depth(_, _, _)
RECURSIVE recursive_chunk_depth_hard_split(_, _, _)

\* recursive_chunk that, out of separators with the text still too long,
\* cuts it in two halves and calls itself on each with the same empty list
recursive_chunk_depth_hard_split(text, seps, maxlen) ==
    LET t == strip(text)
        half == Len(t) \div 2
    IN  IF Len(t) <= maxlen
        THEN 1
        ELSE IF seps = <<>>
             THEN 1 + MaxOf({
                      recursive_chunk_depth_hard_split(
                          SubSeq(t, 1, half), seps, maxlen),
                      recursive_chunk_depth_hard_split(
                          SubSeq(t, half + 1, Len(t)), seps, maxlen)})
             ELSE 1 + parts_depth(split(t, seps[1]), seps, maxlen)

\* the number of nested activations of recursive_chunk(text, separators,
\* max_len) at the deepest point of the call: 1 when it returns [text],
\* one more than the deepest call of line 83 otherwise
recursive_chunk_depth(text, seps, maxlen) ==
    LET t == strip(text)
    IN  IF Len(t) <= maxlen \/ seps = <<>>
        THEN 1
        ELSE 1 + parts_depth(split(t, seps[1]), seps, maxlen)

\* the deepest of the calls the `for part in parts` loop makes, 0 when it
\* makes none
parts_depth(parts, seps, maxlen) ==
    IF parts = <<>>
    THEN 0
    ELSE LET part == strip(Head(parts))
             rest == parts_depth(Tail(parts), seps, maxlen)
         IN  IF part # <<>> /\ Len(part) > maxlen
             THEN MaxOf({recursive_chunk_depth(part, Tail(seps), maxlen),
                         rest})
             ELSE rest

\* chunk_text's default separators: ["\n\n", "."]
DefaultSeparators == << <<"\n", "\n">>, <<".">> >>

\* recursive_chunk applied to every page, in page order
PageChunks(pgs, seps, maxlen) ==
    [i \in 1..Len(pgs) |-> recursive_chunk(pgs[i], seps, maxlen)]

\* chunk_text before its validation: the non-blank chunks of every page
chunk_text(pgs, maxlen, seps) ==
    SelectSeq(Flatten(PageChunks(pgs, seps, maxlen)),
              LAMBDA c : strip(c) # <<>>)

\* validate_non_empty on a list: TRUE when it raises ValueError
validate_non_empty_raises(data) == Len(data) = 0

(* -------------------------- chunker harness --------------------------- *)

VARIABLES pages, separators, max_len, page_chunks, all_chunks, cstate,
          depth   \* deepest nesting of recursive_chunk over the pages

cvars ==
    <<pages, separators, max_len, page_chunks, all_chunks, cstate, depth>>

VARIABLES
    variant,          \* "L2": app.py, "IP": "RAG app.py"
    pc,               \* position of run_pipeline
    runs,             \* ingestion runs started
    pdf,              \* page.extract_text() of every page, None as ""
    extracted,        \* pages (app.py) / <<text>> ("RAG app.py")
    chunks,           \* the run's chunk list
    embeddings,       \* the run's embeddings
    error,            \* the exception that ended the run
    chunks_json,      \* the chunk-store file
    faiss_index,      \* the index file
    pre_chunks_json,  \* the chunk-store file when the run started
    pre_faiss_index,  \* the index file when the run started
    searched,         \* "none", "run": query of run_pipeline, "direct"
    query, rerank_n, ids, candidate_ids, rerank_scores, results, outcome,
    q_vec,            \* the query vector given to index.search
    stages,           \* stages of run_pipeline the run has completed
    log_failed        \* a write to the log file failed in this run

run_vars == <<pdf, extracted, chunks, embeddings, error>>
disk_vars == <<chunks_json, faiss_index>>
pre_vars == <<pre_chunks_json, pre_faiss_index>>
search_vars ==
    <<searched, query, rerank_n, ids, candidate_ids, rerank_scores, results,
      outcome, q_vec>>
pvars ==
    <<variant, pc, runs, run_vars, disk_vars, pre_vars, search_vars, stages,
      log_failed>>
vars == <<cvars, pvars>>

\* separator lists given to the chunker, coarse to fine
SeparatorLists ==
    { <<>>, << <<".">> >>, DefaultSeparators, << <<".">>, <<"\n", "\n">> >> }

\* one page of up to MaxTextLen characters, or two pages of up to
\* MaxTextLen - 3 characters each
PageLists ==
    {<<t>> : t \in Texts(MaxTextLen)}
        \cup {<<t, u>> : t \in Texts(MaxTextLen - 3), u \in Texts(MaxTextLen - 3)}

ScenarioAText ==
    <<"P", "a", "t", "i", "e", "n", "t", " ", "g", "l", "u", "c", "o", "s",
      "e", " ", "l", "e", "v", "e", "l", " ", "9", "5", " ", "m", "g", "/",
      "d", "L", ".", "\n", "\n", "B", "l", "o", "o", "d", " ", "p", "r", "e",
      "s", "s", "u", "r", "e", " ", "1", "2", "0", "/", "8", "0", ".">>

\* Scenario A: pages, chunk_size and separators
ScenarioA == [pages |-> <<ScenarioAText>>, max_len |-> 40,
              separators |-> DefaultSeparators]

ChunkInit ==
    /\ cstate = "input"
    /\ page_chunks = <<>>
    /\ all_chunks = <<>>
    /\ depth = 0
    /\ \/ /\ pages \in PageLists
          /\ separators \in SeparatorLists
          /\ max_len \in 1..MaxChunk
       \/ /\ pages = ScenarioA.pages
          /\ separators = ScenarioA.separators
          /\ max_len = ScenarioA.max_len

\* chunk_text(pages, max_len, separators): the chunks, or ValueError when
\* no chunk was created
ChunkText ==
    /\ cstate = "input"
    /\ page_chunks' = PageChunks(pages, separators, max_len)
    /\ all_chunks' = chunk_text(pages, max_len, separators)
    /\ cstate' = IF validate_non_empty_raises(all_chunks')
                 THEN "ValueError" ELSE "done"
    /\ depth' = MaxOf({recursive_chunk_depth(pages[i], separators, max_len) :
                           i \in 1..Len(pages)})
    /\ UNCHANGED <<pages, separators, max_len, pvars>>


(* --------------------------- chunker properties ----------------------- *)

RECURSIVE NonWhitespace(_)
\* the characters of s that are not whitespace, in order
NonWhitespace(s) ==
    IF s = <<>> THEN <<>>
    ELSE IF Head(s) \in Whitespace THEN NonWhitespace(Tail(s))
         ELSE <<Head(s)>> \o NonWhitespace(Tail(s))

\* c respects the bound, or no given separator occurs in it
BoundedOrAtomic(c) ==
    \/ Len(c) <= max_len
    \/ \A j \in 1..Len(separators) : ~Contains(c, separators[j])

\* C1: every chunk returned by recursive_chunk (per page) and by chunk_text
\* has length <= max_len, or contains no occurrence of any given separator.
C1_ChunkBoundOrAtomic ==
    cstate # "input" =>
        /\ \A i \in 1..Len(page_chunks) : \A j \in 1..Len(page_chunks[i]) :
               BoundedOrAtomic(page_chunks[i][j])
        /\ \A i \in 1..Len(all_chunks) : BoundedOrAtomic(all_chunks[i])

\* C1's case: a text split on both separators that still leaves an
\* oversized, unsplittable chunk next to a bounded one
C1_Witness ==
    /\ cstate = "done"
    /\ Len(separators) = 2
    /\ \E i \in 1..Len(all_chunks) : Len(all_chunks[i]) > max_len
    /\ \E i \in 1..Len(all_chunks) : Len(all_chunks[i]) <= max_len
    /\ \E i \in 1..Len(pages) : Contains(pages[i], separators[2])

\* C2: the chunks, concatenated in order, reproduce every non-whitespace
\* character of the input pages exactly once and in the original order.
C2_CoversEveryNonWhitespaceChar ==
    cstate = "done" =>
        NonWhitespace(Flatten(all_chunks)) = NonWhitespace(Flatten(pages))

IsScenarioA ==
    /\ pages = ScenarioA.pages
    /\ max_len = ScenarioA.max_len
    /\ separators = ScenarioA.separators

\* C3 as stated: Scenario A returns the two chunks without trailing periods.
C3_ScenarioAWithoutPeriods ==
    (IsScenarioA /\ cstate # "input") =>
        /\ cstate = "done"
        /\ all_chunks =
             << <<"P", "a", "t", "i", "e", "n", "t", " ", "g", "l", "u", "c",
                  "o", "s", "e", " ", "l", "e", "v", "e", "l", " ", "9", "5",
                  " ", "m", "g", "/", "d", "L">>,
                <<"B", "l", "o", "o", "d", " ", "p", "r", "e", "s", "s", "u",
                  "r", "e", " ", "1", "2", "0", "/", "8", "0">> >>

\* C3 amended: Scenario A returns exactly the two chunks
\* "Patient glucose level 95 mg/dL." and "Blood pressure 120/80.", each
\* with its trailing period, in that order (both parts are within
\* chunk_size after the split on "\n\n", so neither is split on ".").
C3_ScenarioAKeepsPeriods ==
    (IsScenarioA /\ cstate # "input") =>
        /\ cstate = "done"
        /\ all_chunks =
             << <<"P", "a", "t", "i", "e", "n", "t", " ", "g", "l", "u", "c",
                  "o", "s", "e", " ", "l", "e", "v", "e", "l", " ", "9", "5",
                  " ", "m", "g", "/", "d", "L", ".">>,
                <<"B", "l", "o", "o", "d", " ", "p", "r", "e", "s", "s", "u",
                  "r", "e", " ", "1", "2", "0", "/", "8", "0", ".">> >>

\* Scenario A has been chunked
C3_Witness == IsScenarioA /\ cstate = "done" /\ Len(all_chunks) = 2


(* ------------------------- embedding and index ------------------------ *)

\* number of occurrences of character c in text t
Count(t, c) == Cardinality({i \in 1..Len(t) : t[i] = c})

\* SentenceTransformer.encode of one text: a deterministic vector of fixed
\* dimension (here the counts of "a" and of "b"); unit tells whether
\* faiss.normalize_L2 has been applied to it
encode(t) == [x |-> Count(t, "a"), y |-> Count(t, "b"), unit |-> FALSE]

\* model.encode(chunks): one vector per chunk, in chunk order
encode_all(cs) == [i \in 1..Len(cs) |-> encode(cs[i])]

\* faiss.normalize_L2(q_vec): scales the vector to unit length
normalize_L2(v) == [v EXCEPT !.unit = TRUE]

Dot(q, v) == q.x * v.x + q.y * v.y

L2sq(q, v) == (q.x - v.x) * (q.x - v.x) + (q.y - v.y) * (q.y - v.y)

\* the order faiss ranks stored vector v by, smaller first: the squared
\* distance (IndexFlatL2) or the negated inner product (IndexFlatIP; the
\* positive factor 1/|q| of a normalized query is common to all v)
MetricKey(metric, q, v) == IF metric = "L2" THEN L2sq(q, v) ELSE 0 - Dot(q, v)

\* the label faiss returns in place of a missing neighbour
NoNeighbour == -1

\* index.search(q_vec, k): the ids (0-based) of the min(k, ntotal) best
\* stored vectors, best first, equal scores in any order, then filled up
\* to k entries with -1
index_search(index, q, k) ==
    LET N == Len(index.vecs)
        n == IF k < N THEN k ELSE N
        key(id) == MetricKey(index.metric, q, index.vecs[id + 1])
        tops == {s \in [1..n -> 0..(N - 1)] :
                    /\ \A i, j \in 1..n : i < j =>
                           s[i] # s[j] /\ key(s[i]) <= key(s[j])
                    /\ \A o \in 0..(N - 1) :
                           (\A i \in 1..n : s[i] # o) =>
                               \A i \in 1..n : key(s[i]) <= key(o)}
    IN  {s \o [i \in 1..(k - n) |-> NoNeighbour] : s \in tops}

\* chunks[cid] is defined: Python accepts -len <= cid < len
InRange(cs, cid) == 0 - Len(cs) <= cid /\ cid < Len(cs)

\* chunks[cid] of a Python list, a negative cid counting from the end
PyIndex(cs, cid) == IF cid >= 0 THEN cs[cid + 1] ELSE cs[Len(cs) + cid + 1]

(* ------------------------------ ingestion ----------------------------- *)

\* the "".join of "\n".join(text_pages)
RECURSIVE join_lines(_)
join_lines(ts) ==
    IF ts = <<>> THEN <<>>
    ELSE IF Len(ts) = 1 THEN Head(ts)
         ELSE Head(ts) \o <<"\n">> \o join_lines(Tail(ts))

\* extract_text_from_pdf: the pages whose text is not blank
extract_text_from_pdf(pdf_pages) ==
    SelectSeq(pdf_pages, LAMBDA t : strip(t) # <<>>)

\* get_pdf_text: the page texts joined by "\n"
get_pdf_text(pdf_pages) == join_lines(pdf_pages)

\* make_chunks with the last, shorter slice left out
make_chunks_drop_tail(text, size) ==
    [i \in 1..(Len(text) \div size) |->
        strip(SubSeq(text, (i - 1) * size + 1, i * size))]

\* make_chunks(text, size): the stripped slices text[i:i+size]
make_chunks(text, size) ==
    [i \in 1..((Len(text) + size - 1) \div size) |->
        strip(SubSeq(text, (i - 1) * size + 1,
                     IF i * size < Len(text) THEN i * size ELSE Len(text)))]

(* ------------------------------- rerank ------------------------------- *)

RECURSIVE insert_desc(_, _)
\* x put behind every element whose score is >= its own
insert_desc(s, x) ==
    IF s = <<>> THEN <<x>>
    ELSE IF Head(s).score >= x.score
         THEN <<Head(s)>> \o insert_desc(Tail(s), x)
         ELSE <<x>> \o s

RECURSIVE insert_desc_before_ties(_, _)
\* x put behind only the elements whose score is > its own
insert_desc_before_ties(s, x) ==
    IF s = <<>> THEN <<x>>
    ELSE IF Head(s).score > x.score
         THEN <<Head(s)>> \o insert_desc_before_ties(Tail(s), x)
         ELSE <<x>> \o s

RECURSIVE sort_into(_, _)
sort_into(acc, rs) ==
    IF rs = <<>> THEN acc
    ELSE sort_into(insert_desc(acc, Head(rs)), Tail(rs))

RECURSIVE sort_into_before_ties(_, _)
sort_into_before_ties(acc, rs) ==
    IF rs = <<>> THEN acc
    ELSE sort_into_before_ties(insert_desc_before_ties(acc, Head(rs)), Tail(rs))

\* a descending sort that puts a later element before its equals
sorted_by_score_unstable(rs) == sort_into_before_ties(<<>>, rs)

\* sorted(results, key=lambda x: x["score"], reverse=True): Python's sort
\* is stable, also with reverse=True
sorted_by_score(rs) == sort_into(<<>>, rs)

\* candidate_ids[:rerank_n] cut one entry short
shortlist_one_short(cands, n) ==
    SubSeq(cands, 1, (IF n < Len(cands) THEN n ELSE Len(cands)) - 1)

\* candidate_ids[:rerank_n]
shortlist(cands, n) == SubSeq(cands, 1, IF n < Len(cands) THEN n ELSE Len(cands))

\* [i for i in ids[0] if i < len(chunks)]
candidates(idseq, n) == SelectSeq(idseq, LAMBDA i : i < n)

\* the 1-based ranks of search_with_faiss's loop that pass `cid < len(chunks)`
kept_ranks(idseq, n) ==
    SelectSeq([r \in 1..Len(idseq) |-> r], LAMBDA r : idseq[r] < n)

\* the distance faiss reports beside the label -1 (stands for FLT_MAX)
MaxDistance == 2147483647

\* the scores a reranker can give
Scores == {0, 1}

(* ------------------------------ pipeline ------------------------------ *)

\* the texts page.extract_text() returns in the model
PdfPageTexts == { <<>>, <<"a">>, <<"b", ".", "a">> }

PdfDocs == UNION {[1..n -> PdfPageTexts] : n \in 0..MaxPdfPages}

\* the questions typed at the prompt, after .strip()
Queries == { <<"a">>, <<"b">> }

NoChunkFile == [exists |-> FALSE, data |-> <<>>]
NoIndexFile == [exists |-> FALSE, metric |-> "none", vecs |-> <<>>]

\* no query vector has been encoded
NoVector == [x |-> 0, y |-> 0, unit |-> FALSE]

NoSearch ==
    /\ searched = "none"
    /\ query = <<>>
    /\ rerank_n = 0
    /\ ids = <<>>
    /\ candidate_ids = <<>>
    /\ rerank_scores = <<>>
    /\ results = <<>>
    /\ outcome = "none"
    /\ q_vec = NoVector

\* no query has been made since the run started
ClearSearch ==
    /\ searched' = "none"
    /\ query' = <<>>
    /\ rerank_n' = 0
    /\ ids' = <<>>
    /\ candidate_ids' = <<>>
    /\ rerank_scores' = <<>>
    /\ results' = <<>>
    /\ outcome' = "none"
    /\ q_vec' = NoVector

PipelineInit ==
    /\ variant \in {"L2", "IP"}
    /\ pc = "idle"
    /\ runs = 0
    /\ pdf = <<>>
    /\ extracted = <<>>
    /\ chunks = <<>>
    /\ embeddings = <<>>
    /\ error = "none"
    /\ chunks_json = NoChunkFile
    /\ faiss_index = NoIndexFile
    /\ pre_chunks_json = NoChunkFile
    /\ pre_faiss_index = NoIndexFile
    /\ NoSearch
    /\ stages = {}
    /\ log_failed = FALSE

\* the harness of the chunker at rest
ChunkIdle ==
    /\ cstate = "input"
    /\ pages = <<>>
    /\ separators = <<>>
    /\ max_len = 1
    /\ page_chunks = <<>>
    /\ all_chunks = <<>>
    /\ depth = 0

\* the run ends with exception e
Raise(e) == pc' = "failed" /\ error' = e /\ UNCHANGED stages

\* the stage returned: run_pipeline goes on to the statement after it
Completed(stage) == stages' = stages \cup {stage}

\* run_pipeline starts on the first PDF of the input directory
StartRun ==
    /\ pc = "idle"
    /\ runs < MaxRuns
    /\ \E d \in PdfDocs : pdf' = d
    /\ runs' = runs + 1
    /\ pc' = "extract"
    /\ extracted' = <<>>
    /\ chunks' = <<>>
    /\ embeddings' = <<>>
    /\ error' = "none"
    /\ pre_chunks_json' = chunks_json
    /\ pre_faiss_index' = faiss_index
    /\ ClearSearch
    /\ stages' = {}
    /\ log_failed' = FALSE
    /\ UNCHANGED <<variant, disk_vars, cvars>>

\* extract_text_from_pdf (app.py) / get_pdf_text ("RAG app.py")
Extract ==
    /\ pc = "extract"
    /\ IF variant = "L2"
       THEN IF validate_non_empty_raises(extract_text_from_pdf(pdf))
            THEN /\ Raise("ValueError: no text found")
                 /\ UNCHANGED extracted
            ELSE /\ extracted' = extract_text_from_pdf(pdf)
                 /\ pc' = "chunk"
                 /\ Completed("extract")
                 /\ UNCHANGED error
       ELSE /\ extracted' = <<get_pdf_text(pdf)>>
            /\ pc' = "chunk"
            /\ Completed("extract")
            /\ UNCHANGED error
    /\ UNCHANGED <<variant, log_failed, runs, pdf, chunks, embeddings,
                   disk_vars,
                   pre_vars, search_vars, cvars>>

\* chunk_text(pages, max_len=config["chunk_size"]) (app.py) /
\* make_chunks(text, config["chunk_size"]) ("RAG app.py")
Chunk ==
    /\ pc = "chunk"
    /\ IF variant = "L2"
       THEN IF validate_non_empty_raises(
                   chunk_text(extracted, ChunkSize, DefaultSeparators))
            THEN /\ Raise("ValueError: no chunks created")
                 /\ UNCHANGED chunks
            ELSE /\ chunks' = chunk_text(extracted, ChunkSize, DefaultSeparators)
                 /\ pc' = "save"
                 /\ Completed("chunk")
                 /\ UNCHANGED error
       ELSE /\ chunks' = make_chunks(extracted[1], ChunkSize)
            /\ pc' = "save"
            /\ Completed("chunk")
            /\ UNCHANGED error
    /\ UNCHANGED <<variant, log_failed, runs, pdf, extracted, embeddings,
                   disk_vars,
                   pre_vars, search_vars, cvars>>

\* save_chunks(chunks, config["chunks_json"])
SaveChunks ==
    /\ pc = "save"
    /\ chunks_json' = [exists |-> TRUE, data |-> chunks]
    /\ pc' = "embed"
    /\ Completed("save")
    /\ UNCHANGED <<variant, log_failed, runs, run_vars, faiss_index, pre_vars,
                   search_vars, cvars>>

\* generate_embeddings (app.py) / embed_text ("RAG app.py")
Embed ==
    /\ pc = "embed"
    /\ \/ /\ embeddings' = encode_all(chunks)
          /\ pc' = "index"
          /\ Completed("embed")
          /\ UNCHANGED error
       \/ \* SentenceTransformer(model_name) or encode raises
          /\ Raise("EmbeddingError")
          /\ UNCHANGED embeddings
    /\ UNCHANGED <<variant, log_failed, runs, pdf, extracted, chunks, disk_vars,
                   pre_vars, search_vars, cvars>>

\* run_pipeline reads none of its locals once the index is written (the
\* search reloads both files): they are dropped there
DropLocals ==
    /\ pdf' = <<>>
    /\ extracted' = <<>>
    /\ chunks' = <<>>
    /\ embeddings' = <<>>
    /\ pre_chunks_json' = chunks_json'
    /\ pre_faiss_index' = faiss_index'

\* build_faiss_index inside a try/except that logs and returns: run_pipeline
\* goes on to the question although no index was written
BuildIndex_error_swallowed ==
    /\ pc = "index"
    /\ UNCHANGED <<variant, log_failed, runs, chunks_json, search_vars, cvars,
                   error>>
    /\ IF Len(embeddings) = 0
       THEN UNCHANGED <<faiss_index, stages>>
       ELSE /\ faiss_index' = [exists |-> TRUE, metric |-> variant,
                               vecs |-> embeddings]
            /\ Completed("index")
    /\ pc' = "ready"
    /\ DropLocals

\* build_faiss_index(embeddings, config["faiss_index_path"]);
\* embeddings.shape[1] of the empty array encode([]) returns is an IndexError
BuildIndex ==
    /\ pc = "index"
    /\ UNCHANGED <<variant, log_failed, runs, chunks_json, search_vars, cvars>>
    /\ IF Len(embeddings) = 0
       THEN /\ Raise("IndexError: embeddings.shape[1]")
            /\ UNCHANGED <<faiss_index, pdf, extracted, chunks, embeddings,
                           pre_vars>>
       ELSE /\ faiss_index' = [exists |-> TRUE, metric |-> variant,
                               vecs |-> embeddings]
            /\ pc' = "ready"
            /\ Completed("index")
            /\ DropLocals
            /\ UNCHANGED error

\* the exception open(LOG_FILE, "a") or f.write raises
LogWriteError == "OSError: pipeline_log.txt"

\* write_log (app.py) has no handler: the exception of a failed log write
\* leaves the stage that called it and ends run_pipeline. The call sites are
\* the first and last statements of the stages; save_chunks and
\* build_faiss_index log after their file is written. A failure of the
\* logging in search_with_faiss (lines 159, 191) returns no result list.
WriteLogFails ==
    /\ variant = "L2"
    /\ pc \in {"extract", "chunk", "save", "embed", "index", "ready"}
    /\ log_failed' = TRUE
    /\ Raise(LogWriteError)
    /\ \/ UNCHANGED disk_vars
       \/ /\ pc = "save"
          /\ chunks_json' = [exists |-> TRUE, data |-> chunks]
          /\ UNCHANGED faiss_index
       \/ /\ pc = "index"
          /\ faiss_index' = [exists |-> TRUE, metric |-> variant,
                             vecs |-> embeddings]
          /\ UNCHANGED chunks_json
    /\ UNCHANGED <<variant, runs, pdf, extracted, chunks, embeddings,
                   pre_vars, search_vars, cvars>>

\* pdfplumber.open or page.extract_text raises. extract_text_from_pdf
\* (app.py) lets it through; get_pdf_text ("RAG app.py") calls log_error and
\* returns "". log_error catches whatever its own open/write raises and
\* prints "Logging failed."
ExtractFails ==
    /\ pc = "extract"
    /\ IF variant = "L2"
       THEN /\ Raise("PdfError")
            /\ UNCHANGED <<extracted, log_failed>>
       ELSE /\ extracted' = <<"">>
            /\ pc' = "chunk"
            /\ Completed("extract")
            /\ \E failed \in BOOLEAN : log_failed' = failed
            /\ UNCHANGED error
    /\ UNCHANGED <<variant, runs, pdf, chunks, embeddings, disk_vars,
                   pre_vars, search_vars, cvars>>

(* -------------------------------- query ------------------------------- *)

\* the result list search_with_faiss builds from the labels idseq
faiss_results(cs, index, qv, idseq) ==
    LET kept == kept_ranks(idseq, Len(cs))
    IN  [j \in 1..Len(kept) |->
            [rank |-> kept[j],
             chunk_id |-> idseq[kept[j]],
             distance |-> IF idseq[kept[j]] = NoNeighbour THEN MaxDistance
                          ELSE L2sq(qv, index.vecs[idseq[kept[j]] + 1]),
             text |-> PyIndex(cs, idseq[kept[j]])]]

\* search_with_faiss(query, config) on the persisted files, top_k = k
search_with_faiss(q, k) ==
    LET cs == chunks_json.data
        qv == encode(q)
    IN  \E s \in index_search(faiss_index, qv, k) :
            /\ q_vec' = qv
            /\ ids' = s
            /\ candidate_ids' = candidates(s, Len(cs))
            /\ rerank_n' = 0
            /\ rerank_scores' = <<>>
            /\ IF \A i \in 1..Len(candidate_ids') : InRange(cs, candidate_ids'[i])
               THEN /\ results' = faiss_results(cs, faiss_index, qv, s)
                    /\ outcome' = "ok"
               ELSE /\ results' = <<>>
                    /\ outcome' = "IndexError"

\* search_pdf(query, config) on the persisted files, top_k = k and
\* rerank_top_n = rn. reranker.predict gives every (query, text) pair one
\* score, the same for the same text. In the result records pos is not
\* part of the program's data: it records the place the entry had in the
\* shortlist.
search_pdf(q, k, rn) ==
    LET cs == chunks_json.data
        qv == normalize_L2(encode(q))
    IN  \E s \in index_search(faiss_index, qv, k) :
            /\ q_vec' = qv
            /\ ids' = s
            /\ candidate_ids' = candidates(s, Len(cs))
            /\ rerank_n' = rn
            /\ LET short == shortlist(candidate_ids', rn)
               IN  IF \A i \in 1..Len(short) : InRange(cs, short[i])
                   THEN \E sc \in [{PyIndex(cs, short[i]) : i \in 1..Len(short)}
                                      -> Scores] :
                            /\ rerank_scores' =
                                 [i \in 1..Len(short) |-> sc[PyIndex(cs, short[i])]]
                            /\ results' = sorted_by_score(
                                 [i \in 1..Len(short) |->
                                     [text |-> PyIndex(cs, short[i]),
                                      score |-> rerank_scores'[i],
                                      pos |-> i]])
                            /\ outcome' = "ok"
                   ELSE /\ rerank_scores' = <<>>
                        /\ results' = <<>>
                        /\ outcome' = "IndexError"

\* one query against the persisted files
Search(q) ==
    /\ query' = q
    /\ IF variant = "L2"
       THEN \E k \in 1..MaxTopK : search_with_faiss(q, k)
       ELSE \E k \in 1..MaxTopK, rn \in 1..MaxRerankN : search_pdf(q, k, rn)

\* run_pipeline after "Ready for search": a question is typed and searched
Query ==
    /\ pc = "ready"
    /\ \E q \in Queries : Search(q)
    /\ searched' = "run"
    /\ pc' = "done"
    /\ UNCHANGED <<variant, log_failed, runs, run_vars, disk_vars, pre_vars,
                   cvars,
                   stages>>

\* run_pipeline after "Ready for search": the question is empty
NoQuery ==
    /\ pc = "ready"
    /\ pc' = "done"
    /\ UNCHANGED <<variant, log_failed, runs, run_vars, disk_vars, pre_vars,
                   search_vars,
                   cvars, stages>>

\* search_with_faiss / search_pdf called on the files a former run left.
\* A search leaves both files as they are, so a second search between two
\* runs sees what the first one saw: one is modelled.
DirectSearch ==
    /\ pc = "idle"
    /\ searched = "none"
    /\ chunks_json.exists /\ faiss_index.exists
    /\ \E q \in Queries : Search(q)
    /\ searched' = "direct"
    /\ UNCHANGED <<variant, log_failed, pc, runs, run_vars, disk_vars,
                   pre_vars, cvars,
                   stages>>

\* the process ends, by return or by the uncaught exception: its locals are
\* gone, the two files stay
Exit ==
    /\ pc \in {"failed", "done"}
    /\ pc' = "idle"
    /\ error' = "none"
    /\ stages' = {}
    /\ log_failed' = FALSE
    /\ UNCHANGED <<variant, runs, disk_vars, cvars>>
    /\ DropLocals
    /\ ClearSearch

Init == ChunkIdle /\ PipelineInit

Next ==
    \/ StartRun
    \/ Extract
    \/ Chunk
    \/ SaveChunks
    \/ Embed
    \/ BuildIndex
    \/ Query
    \/ NoQuery
    \/ DirectSearch
    \/ WriteLogFails
    \/ ExtractFails
    \/ Exit

Spec == Init /\ [][Next]_vars

ChunkNext == ChunkText

ChunkSpecInit == ChunkInit /\ PipelineInit /\ variant = "L2"

ChunkSpec == ChunkSpecInit /\ [][ChunkNext]_vars


(* -------------------------- pipeline properties ----------------------- *)

\* the document has pages and every page text is empty or whitespace-only
AllBlank(d) == Len(d) > 0 /\ \A i \in 1..Len(d) : strip(d[i]) = <<>>

\* the exceptions that report an empty input
EmptyInputErrors ==
    {"ValueError: no text found", "ValueError: no chunks created"}

FilesAsBeforeRun ==
    chunks_json = pre_chunks_json /\ faiss_index = pre_faiss_index

\* C4: when every page text is blank, the run raises an empty-input error
\* before save_chunks or build_faiss_index runs and writes neither file:
\* the run is never past its chunking stage unless it has failed so.
C4_BlankDocumentRaisesBeforeSave ==
    (AllBlank(pdf) /\ pc \notin {"extract", "chunk"}) =>
        /\ pc = "failed"
        /\ error \in EmptyInputErrors
        /\ FilesAsBeforeRun

\* C5: after a run has failed at any stage, the chunk-store file and the
\* index file are exactly what they were before the run started.
C5_FailedRunLeavesFilesUntouched == pc = "failed" => FilesAsBeforeRun

\* index entry i is the embedding of chunk-store entry i, for every i
Aligned ==
    /\ Len(faiss_index.vecs) = Len(chunks_json.data)
    /\ \A i \in 1..Len(chunks_json.data) :
           faiss_index.vecs[i] = encode(chunks_json.data[i])

\* C6: whenever a query has reloaded the persisted index and chunk store,
\* they have the same number of entries and index entry i is the embedding
\* of chunk i.
C6_QueryReloadsAlignedFiles == searched # "none" => Aligned

\* C7: in a query every id the index search returned that is >= the number
\* of stored chunks is dropped, the remaining candidates keep their
\* relative order, and the query returns a result list instead of failing.
C7_OutOfRangeIdsDroppedQueryReturns ==
    searched # "none" =>
        /\ outcome = "ok"
        /\ candidate_ids =
             SelectSeq(ids, LAMBDA i : ~(i >= Len(chunks_json.data)))
        /\ variant = "L2" =>
               [j \in 1..Len(results) |-> results[j].chunk_id] = candidate_ids

\* C8: when top_k exceeds the number N of indexed vectors, search_with_faiss
\* returns exactly N results, one for each stored chunk and none twice,
\* ordered by the index metric.
C8_TopKAboveNReturnsEveryChunkOnce ==
    (variant = "L2" /\ searched # "none"
        /\ Len(ids) > Len(faiss_index.vecs)) =>
        /\ outcome = "ok"
        /\ Len(results) = Len(faiss_index.vecs)
        /\ \A c \in 0..(Len(faiss_index.vecs) - 1) :
               Cardinality({j \in 1..Len(results) :
                               results[j].chunk_id = c}) = 1
        /\ \A i, j \in 1..Len(results) :
               i < j => results[i].distance <= results[j].distance

\* C9: in the list search_pdf returns, of two shortlisted candidates with
\* equal rerank scores the one that came earlier in the first-stage
\* retrieval order comes earlier.
C9_RerankTiesKeepRetrievalOrder ==
    (variant = "IP" /\ outcome = "ok") =>
        \A i, j \in 1..Len(results) :
            (i < j /\ results[i].score = results[j].score) =>
                results[i].pos < results[j].pos

\* C9's case: two tied candidates behind one that the rerank moved ahead
\* of the earlier of them
C9_Witness ==
    /\ variant = "IP" /\ outcome = "ok"
    /\ Len(results) = 3
    /\ results[1].pos = 2
    /\ results[2].score = results[3].score
    /\ results[2].pos = 1 /\ results[3].pos = 3

\* C10: the list search_pdf returns is a permutation of exactly the first
\* min(rerank_top_n, number of retained candidates) first-stage candidates,
\* each with its own rerank score, in non-increasing order of that score.
C10_ResultIsRerankedShortlist ==
    (variant = "IP" /\ outcome = "ok") =>
        LET m == IF rerank_n < Len(candidate_ids)
                 THEN rerank_n ELSE Len(candidate_ids)
        IN  /\ Len(results) = m
            /\ Len(rerank_scores) = m
            /\ {results[j].pos : j \in 1..Len(results)} = 1..m
            /\ \A j \in 1..Len(results) :
                   /\ results[j].text =
                        PyIndex(chunks_json.data, candidate_ids[results[j].pos])
                   /\ results[j].score = rerank_scores[results[j].pos]
            /\ \A i, j \in 1..Len(results) :
                   i < j => results[i].score >= results[j].score

\* C10's case: more candidates retained than rerank_top_n, and the rerank
\* put another candidate than the first-stage winner first
C10_Witness ==
    /\ variant = "IP" /\ outcome = "ok"
    /\ Len(candidate_ids) > rerank_n
    /\ Len(results) = rerank_n
    /\ rerank_n >= 2
    /\ results[1].pos # 1

\* C11: every result search_with_faiss returns has
\* 0 <= chunk_id < len(chunks) and the text chunks[chunk_id], whatever ids
\* the index search returned, the filler id -1 included.
C11_ResultIdsWithinChunkStore ==
    (variant = "L2" /\ outcome = "ok") =>
        \A j \in 1..Len(results) :
            /\ 0 <= results[j].chunk_id
            /\ results[j].chunk_id < Len(chunks_json.data)
            /\ results[j].text = chunks_json.data[results[j].chunk_id + 1]

\* C12: in the inner-product pipeline every vector stored in the index
\* was L2-normalized before it was added, and every query vector was
\* L2-normalized before it was searched.
C12_InnerProductVectorsNormalized ==
    variant = "IP" =>
        /\ \A i \in 1..Len(faiss_index.vecs) : faiss_index.vecs[i].unit
        /\ searched # "none" => q_vec.unit

\* the stages run_pipeline goes through between the document and the question
IngestionStages == {"chunk", "save", "embed", "index"}

\* C13: the question of run_pipeline is searched only after the same run
\* completed chunking, chunk-store persistence, embedding and index
\* persistence; a run in which one of them failed or was skipped never
\* searches.
C13_QueryOnlyAfterIngestion ==
    searched = "run" => IngestionStages \subseteq stages

\* a run answered its question after the four stages
C13_Witness ==
    /\ searched = "run"
    /\ outcome = "ok"
    /\ IngestionStages \subseteq stages


\* C14: a failure of the logging operation never reaches the caller: no run
\* ends with the exception of a failed log write, the stage goes on or
\* fails as it would have with a working log.
C14_LoggingFailureNeverPropagates ==
    log_failed => error # LogWriteError


\* C15: recursive_chunk returns on every input, and its calls never nest
\* deeper than len(separators) + 1.
C15_RecursionDepthBounded ==
    cstate # "input" =>
        /\ 1 <= depth
        /\ depth <= Len(separators) + 1

\* a page too long at every level: the recursion used both separators and
\* reached the empty list
C15_Witness ==
    /\ cstate = "done"
    /\ Len(separators) = 2
    /\ depth = 3

=============================================================================
